---- MODULE Spec2Model ----
(***************************************************************************)
(* Exchange adapter and rate-limited request layer of gocryptotrader:      *)
(* the LocalBitcoins and HuobiHadax wrappers, the market data cache they   *)
(* read through, the request dispatcher with its rate limiter, and the     *)
(* OKEX fee engine exercised by okex_test.go.                              *)
(*                                                                         *)
(* Each component has its own specification (SpecFee, SpecSubmit,          *)
(* SpecCancel, SpecCache, SpecLimiter, SpecDriver, SpecBook, SpecAccount)  *)
(* over the shared variable list; a specification leaves the other         *)
(* components' variables at their initial values.                          *)
(***************************************************************************)
EXTENDS Integers, Sequences, FiniteSets, TLC

VARIABLES
    feeBuilder,   \* exchange.FeeBuilder handed to GetFee
    feeResp,      \* (fee, err) returned by GetFee, or the "none" marker
    submitIn,     \* arguments of SubmitOrder and the venue's scripted answers
    submitResp,   \* exchange.SubmitOrderResponse, error and dispatch log
    cancelIn,     \* venue state seen by CancelAllOrders
    cancelResp,   \* exchange.CancelAllOrdersResponse, error and dispatch log
    cache,        \* ticker / orderbook package store, per key
    enabledPairs, \* l.GetEnabledPairs(Spot) of the LocalBitcoins driver
    fetcher,      \* per caller: position inside FetchTicker / FetchOrderbook
    limiter,      \* one venue's Requester: its name and, per channel, the window
    requester,    \* per caller: position inside the dispatcher's execute
    pairStore,    \* one driver: its name and its stored list of available pairs
    driverResp,   \* what the driver's last pair-list or stub call returned
    prevOutcome,  \* operation and error of the call before the last one
    bookIn,       \* driver of UpdateOrderbook and the venue's scripted answer
    bookStore,    \* orderbook package store for the pair
    bookResp,     \* (orderbook.Base, error) returned by UpdateOrderbook
    mtx,          \* package-level sync.Mutex of huobihadax: the holder, or Free
    accountID,    \* per HUOBIHADAX instance: its AccountID field
    accountCall,  \* per caller: position inside GetAccountID and its result
    resolved      \* per instance: the identifier of its first successful call

vars == <<feeBuilder, feeResp, submitIn, submitResp, cancelIn, cancelResp,
          cache, enabledPairs, fetcher, limiter, requester,
          pairStore, driverResp, prevOutcome, bookIn, bookStore, bookResp,
          mtx, accountID, accountCall, resolved>>

feeVars == <<feeBuilder, feeResp>>
submitVars == <<submitIn, submitResp>>
cancelVars == <<cancelIn, cancelResp>>
cacheVars == <<cache, enabledPairs, fetcher>>
limiterVars == <<limiter, requester>>
driverVars == <<pairStore, driverResp, prevOutcome>>
bookVars == <<bookIn, bookStore, bookResp>>
accountVars == <<mtx, accountID, accountCall, resolved>>

None == "none"
NoResp == [done |-> FALSE]
Nil == "nil"

Venues == {"LocalBitcoins", "HuobiHadax"}

\* The error outcomes of a dispatched request.
CallErrors == {"TransportError", "VenueError", "Timeout"}

Min2(a, b) == IF a <= b THEN a ELSE b

(***************************************************************************)
(* The decimal digits strconv.FormatInt and fmt.Sprintf("%v", n) write.     *)
(***************************************************************************)
Digit(d) ==
    CASE d = 0 -> "0" [] d = 1 -> "1" [] d = 2 -> "2" [] d = 3 -> "3"
      [] d = 4 -> "4" [] d = 5 -> "5" [] d = 6 -> "6" [] d = 7 -> "7"
      [] d = 8 -> "8" [] d = 9 -> "9"

(***************************************************************************)
(* Fee engine (OKEX GetFee as exercised by TestGetFee).                    *)
(* Fees and rates are fixed-point numbers in units of 1/10000, amounts and  *)
(* prices are whole units: the basic taker fee 0.0015 of the test is 15.   *)
(***************************************************************************)
TakerFeeRate == 15
MakerFeeRate == 10
LTCWithdrawalFee == 10

MaxFeeAmount == 2
MaxFeePrice == 2

FeeTypes == {"CryptocurrencyTradeFee", "CryptocurrencyWithdrawalFee",
             "CyptocurrencyDepositFee", "InternationalBankDepositFee",
             "InternationalBankWithdrawalFee"}
FeeCurrencies == {"LTC", "BTC", "hello"}
FeeAmounts == ((0 - MaxFeeAmount)..MaxFeeAmount) \cup {1000}
FeePrices == ((0 - MaxFeePrice)..MaxFeePrice) \cup {1000, 0 - 1000}

FeeBuilders ==
    [FeeType : FeeTypes, FirstCurrency : FeeCurrencies, Amount : FeeAmounts,
     PurchasePrice : FeePrices, IsMaker : BOOLEAN]

calculateTradingFeeNoPriceGuard(purchasePrice, amount, isMaker) ==
    (IF isMaker THEN MakerFeeRate ELSE TakerFeeRate) * amount * purchasePrice

calculateTradingFee(purchasePrice, amount, isMaker) ==
    IF purchasePrice <= 0
    THEN 0
    ELSE (IF isMaker THEN MakerFeeRate ELSE TakerFeeRate) * amount * purchasePrice

getWithdrawalFee(currency) ==
    IF currency = "LTC" THEN LTCWithdrawalFee ELSE 0

FeeByType(fb) ==
    CASE fb.FeeType = "CryptocurrencyTradeFee" ->
            calculateTradingFee(fb.PurchasePrice, fb.Amount, fb.IsMaker)
      [] fb.FeeType = "CryptocurrencyWithdrawalFee" ->
            getWithdrawalFee(fb.FirstCurrency)
      [] OTHER -> 0

GetFeeUnclamped(fb) == [done |-> TRUE, fee |-> FeeByType(fb), err |-> Nil]

GetFee(fb) ==
    [done |-> TRUE, fee |-> IF FeeByType(fb) < 0 THEN 0 ELSE FeeByType(fb),
     err |-> Nil]

FeeFrame ==
    UNCHANGED <<submitVars, cancelVars, cacheVars, limiterVars,
                driverVars, bookVars, accountVars>>
SubmitFrame ==
    UNCHANGED <<feeVars, cancelVars, cacheVars, limiterVars,
                driverVars, bookVars, accountVars>>
CancelFrame ==
    UNCHANGED <<feeVars, submitVars, cacheVars, limiterVars,
                driverVars, bookVars, accountVars>>
CacheFrame ==
    UNCHANGED <<feeVars, submitVars, cancelVars, limiterVars,
                driverVars, bookVars, accountVars>>
LimiterFrame ==
    UNCHANGED <<feeVars, submitVars, cancelVars, cacheVars,
                driverVars, bookVars, accountVars>>
DriverFrame ==
    UNCHANGED <<feeVars, submitVars, cancelVars, cacheVars,
                limiterVars, bookVars, accountVars>>
BookFrame ==
    UNCHANGED <<feeVars, submitVars, cancelVars, cacheVars,
                limiterVars, driverVars, accountVars>>
AccountFrame ==
    UNCHANGED <<feeVars, submitVars, cancelVars, cacheVars,
                limiterVars, driverVars, bookVars>>

FeeInit ==
    /\ feeBuilder \in FeeBuilders
    /\ feeResp = NoResp

\* A caller asks the venue driver for the fee of feeBuilder.
FeeCall ==
    /\ feeResp = NoResp
    /\ feeResp' = GetFee(feeBuilder)
    /\ UNCHANGED feeBuilder
    /\ FeeFrame

(***************************************************************************)
(* Strings that are formatted, compared or parsed are sequences of         *)
(* one-character strings; Str0 is the empty string "".                     *)
(***************************************************************************)
Str0 == <<>>

FormatIntSeq(n) ==
    LET RECURSIVE Digits(_)
        Digits(k) == IF k < 10 THEN <<Digit(k)>>
                     ELSE Append(Digits(k \div 10), Digit(k % 10))
    IN IF n < 0 THEN <<"-">> \o Digits(0 - n) ELSE Digits(n)

(***************************************************************************)
(* LocalBitcoins SubmitOrder.  Amounts are fixed-point halves, so that     *)
(* math.Round has something to round: amount 3 stands for 1.5.             *)
(***************************************************************************)
MaxAds == 2
NumAdIDs == 2
AdIDBase == 9
MaxAmountHalves == 3

SecondCurrencies == {"USD", "AUD"}
OrderSides == {"Buy", "Sell"}
AdIDs == AdIDBase..(AdIDBase + NumAdIDs - 1)
SubmitAmounts == 0..MaxAmountHalves

\* math.Round on a number of halves: half away from zero.
RoundHalves(a) ==
    IF a >= 0 THEN (a + 1) \div 2 ELSE 0 - ((1 - a) \div 2)

\* The AdCreate literal of SubmitOrder.
AdCreateParams(secondCurrency, side, amount) ==
    [PriceEquation |-> "USD_in_AUD",
     Latitude |-> 1,
     Longitude |-> 1,
     City |-> "City",
     Location |-> "Location",
     CountryCode |-> "US",
     Currency |-> secondCurrency,
     AccountInfo |-> "-",
     BankName |-> "Bank",
     MSG |-> side,
     SMSVerficationRequired |-> TRUE,
     TrackMaxAmount |-> TRUE,
     RequireTrustedByAdvertiser |-> TRUE,
     RequireIdentification |-> TRUE,
     OnlineProvider |-> "",
     TradeType |-> "",
     MinAmount |-> RoundHalves(amount)]

\* The fields of a listed ad that SubmitOrder compares with its parameters.
AdMatchesIgnoringCurrency(ad, params) ==
    /\ ad.PriceEquation = params.PriceEquation
    /\ ad.Lat = params.Latitude
    /\ ad.Lon = params.Longitude
    /\ ad.City = params.City
    /\ ad.Location = params.Location
    /\ ad.CountryCode = params.CountryCode
    /\ ad.AccountInfo = params.AccountInfo
    /\ ad.BankName = params.BankName
    /\ ad.SMSVerficationRequired = params.SMSVerficationRequired
    /\ ad.TrackMaxAmount = params.TrackMaxAmount
    /\ ad.RequireTrustedByAdvertiser = params.RequireTrustedByAdvertiser
    /\ ad.OnlineProvider = params.OnlineProvider
    /\ ad.TradeType = params.TradeType
    /\ ad.MinAmount = FormatIntSeq(params.MinAmount)

AdMatches(ad, params) ==
    /\ ad.PriceEquation = params.PriceEquation
    /\ ad.Lat = params.Latitude
    /\ ad.Lon = params.Longitude
    /\ ad.City = params.City
    /\ ad.Location = params.Location
    /\ ad.CountryCode = params.CountryCode
    /\ ad.Currency = params.Currency
    /\ ad.AccountInfo = params.AccountInfo
    /\ ad.BankName = params.BankName
    /\ ad.SMSVerficationRequired = params.SMSVerficationRequired
    /\ ad.TrackMaxAmount = params.TrackMaxAmount
    /\ ad.RequireTrustedByAdvertiser = params.RequireTrustedByAdvertiser
    /\ ad.OnlineProvider = params.OnlineProvider
    /\ ad.TradeType = params.TradeType
    /\ ad.MinAmount = FormatIntSeq(params.MinAmount)

\* The loop over ads.AdList: every matching ad overwrites adID.
RECURSIVE FindAdID(_, _, _)
FindAdID(ads, params, adID) ==
    IF ads = <<>> THEN adID
    ELSE FindAdID(Tail(ads), params,
                  IF AdMatches(Head(ads), params)
                  THEN FormatIntSeq(Head(ads).AdID)
                  ELSE adID)

\* l.CreateAd: the venue accepts the ad or answers with an error.
CreateAd(in) == in.createErr

\* l.Getads: the listing of the caller's ads, or an error and no listing.
Getads(in) ==
    IF in.adsErr # Nil
    THEN [AdList |-> <<>>, err |-> in.adsErr]
    ELSE [AdList |-> in.ads, err |-> Nil]

LBSubmitOrderListingFirst(in) ==
    LET params == AdCreateParams(in.secondCurrency, in.side, in.amount)
        listed == Getads(in)
        adID == FindAdID(listed.AdList, params, Str0)
    IN IF CreateAd(in) # Nil
       THEN [done |-> TRUE, IsOrderPlaced |-> FALSE, OrderID |-> Str0, err |-> CreateAd(in),
             log |-> <<"Getads", "CreateAd">>]
       ELSE IF adID # Str0
       THEN [done |-> TRUE, IsOrderPlaced |-> TRUE, OrderID |-> adID, err |-> listed.err,
             log |-> <<"Getads", "CreateAd">>]
       ELSE [done |-> TRUE, IsOrderPlaced |-> TRUE, OrderID |-> Str0,
             err |-> "Ad placed, but not found via API",
             log |-> <<"Getads", "CreateAd">>]

LBSubmitOrder(in) ==
    LET params == AdCreateParams(in.secondCurrency, in.side, in.amount)
        listed == Getads(in)
        adID == FindAdID(listed.AdList, params, Str0)
    IN IF CreateAd(in) # Nil
       THEN [done |-> TRUE, IsOrderPlaced |-> FALSE, OrderID |-> Str0, err |-> CreateAd(in),
             log |-> <<"CreateAd">>]
       ELSE IF adID # Str0
       THEN [done |-> TRUE, IsOrderPlaced |-> TRUE, OrderID |-> adID, err |-> listed.err,
             log |-> <<"CreateAd", "Getads">>]
       ELSE [done |-> TRUE, IsOrderPlaced |-> TRUE, OrderID |-> Str0,
             err |-> "Ad placed, but not found via API",
             log |-> <<"CreateAd", "Getads">>]

(***************************************************************************)
(* The ads a venue may list after SubmitOrder(params): the ad just placed  *)
(* under some identifier, and ads that differ from it in one field.        *)
(***************************************************************************)
AdFields == {"PriceEquation", "Lat", "Lon", "City", "Location", "CountryCode",
             "Currency", "AccountInfo", "BankName", "SMSVerficationRequired",
             "TrackMaxAmount", "RequireTrustedByAdvertiser",
             "RequireIdentification", "OnlineProvider", "TradeType",
             "MinAmount"}

EchoAd(params, id) ==
    [PriceEquation |-> params.PriceEquation,
     Lat |-> params.Latitude,
     Lon |-> params.Longitude,
     City |-> params.City,
     Location |-> params.Location,
     CountryCode |-> params.CountryCode,
     Currency |-> params.Currency,
     AccountInfo |-> params.AccountInfo,
     BankName |-> params.BankName,
     SMSVerficationRequired |-> params.SMSVerficationRequired,
     TrackMaxAmount |-> params.TrackMaxAmount,
     RequireTrustedByAdvertiser |-> params.RequireTrustedByAdvertiser,
     RequireIdentification |-> params.RequireIdentification,
     OnlineProvider |-> params.OnlineProvider,
     TradeType |-> params.TradeType,
     MinAmount |-> FormatIntSeq(params.MinAmount),
     AdID |-> id]

OtherValue(f, v) ==
    CASE f \in {"Lat", "Lon"} -> v + 1
      [] f \in {"SMSVerficationRequired", "TrackMaxAmount",
                "RequireTrustedByAdvertiser", "RequireIdentification"} -> ~v
      [] f = "MinAmount" -> v \o <<".", "0", "0">>
      [] f = "Currency" -> IF v = "USD" THEN "AUD" ELSE "USD"
      [] OTHER -> "Other"

CandidateAds(params) ==
    {EchoAd(params, id) : id \in AdIDs}
    \cup {[EchoAd(params, AdIDBase + NumAdIDs) EXCEPT ![f] = OtherValue(f, @)] :
            f \in AdFields}

SeqsUpTo(S, n) == UNION {[1..k -> S] : k \in 0..n}

\* The arguments of a call and the venue's answers to CreateAd and Getads.
LBSubmitInput(c, s, a, ce, ae, l) ==
    [driver |-> "LocalBitcoins", secondCurrency |-> c, side |-> s,
     amount |-> a, createErr |-> ce, adsErr |-> ae, ads |-> l]

LBSubmitInit ==
    /\ \E c \in SecondCurrencies, s \in OrderSides, a \in SubmitAmounts :
        \/ \E k \in 0..MaxAds :
             \E l \in [1..k -> CandidateAds(AdCreateParams(c, s, a))] :
                submitIn = LBSubmitInput(c, s, a, Nil, Nil, l)
        \/ \E ce \in {"VenueError", "Timeout"} :
                submitIn = LBSubmitInput(c, s, a, ce, Nil, <<>>)
        \/ submitIn = LBSubmitInput(c, s, a, Nil, "TransportError", <<>>)
    /\ submitResp = NoResp

LBSubmit ==
    /\ submitResp = NoResp
    /\ submitIn.driver = "LocalBitcoins"
    /\ submitResp' = LBSubmitOrder(submitIn)
    /\ UNCHANGED submitIn
    /\ SubmitFrame

LBSubmitted ==
    /\ submitResp # NoResp
    /\ submitIn.driver = "LocalBitcoins"
    /\ submitIn.createErr = Nil
    /\ submitIn.adsErr = Nil

(***************************************************************************)
(* HuobiHadax SubmitOrder.                                                 *)
(***************************************************************************)
MaxOrderPrice == 2
MaxOrderAmount == 1
NumOrderIDs == 2

HHOrderSides == OrderSides \cup {"Other"}
HHOrderTypes == {"Market", "Limit", "Other"}
HHOrderPrices == 1..MaxOrderPrice
HHOrderAmounts == 1..MaxOrderAmount
HHOrderPairs == {<<"B", "T", "C", "U", "S", "D", "T">>, <<"e", "t", "h", "B", "T", "C">>}
ClientIDs == {Str0, <<"7">>, <<"1", "2">>, <<"x">>}

\* common.StringToLower on the letters of the pairs above.
LowerChar(ch) ==
    CASE ch = "B" -> "b" [] ch = "T" -> "t" [] ch = "C" -> "c"
      [] ch = "U" -> "u" [] ch = "S" -> "s" [] ch = "D" -> "d"
      [] OTHER -> ch

StringToLower(str) == [i \in DOMAIN str |-> LowerChar(str[i])]

\* strconv.ParseInt(clientID, 0, 64) with its error dropped: the value of a
\* decimal numeral without a leading zero, and 0 for what does not parse.
ParseIntOrZero(str) ==
    IF /\ str # Str0
       /\ \A i \in DOMAIN str : \E d \in 0..9 : Digit(d) = str[i]
       /\ (Len(str) = 1 \/ str[1] # "0")
    THEN LET RECURSIVE Val(_, _)
             Val(s, acc) ==
                 IF s = <<>> THEN acc
                 ELSE Val(Tail(s),
                          10 * acc + (CHOOSE d \in 0..9 : Digit(d) = Head(s)))
         IN Val(str, 0)
    ELSE 0

FormattedTypeSellLimitAsBuy(side, orderType) ==
    IF side = "Buy" /\ orderType = "Market"
    THEN "SpotNewOrderRequestTypeBuyMarket"
    ELSE IF side = "Sell" /\ orderType = "Market"
    THEN "SpotNewOrderRequestTypeSellMarket"
    ELSE IF side = "Buy" /\ orderType = "Limit"
    THEN "SpotNewOrderRequestTypeBuyLimit"
    ELSE IF side = "Sell" /\ orderType = "Limit"
    THEN "SpotNewOrderRequestTypeBuyLimit"
    ELSE None

\* The if/else chain over (side, orderType): the venue's order-type code, or
\* None where the chain ends in the 'unsupported' return.
FormattedType(side, orderType) ==
    IF side = "Buy" /\ orderType = "Market"
    THEN "SpotNewOrderRequestTypeBuyMarket"
    ELSE IF side = "Sell" /\ orderType = "Market"
    THEN "SpotNewOrderRequestTypeSellMarket"
    ELSE IF side = "Buy" /\ orderType = "Limit"
    THEN "SpotNewOrderRequestTypeBuyLimit"
    ELSE IF side = "Sell" /\ orderType = "Limit"
    THEN "SpotNewOrderRequestTypeSellLimit"
    ELSE None

\* SpotNewOrderRequestParams as sent; Price keeps its zero value unless the
\* order is a limit order.
SpotNewOrderParams(in) ==
    [Amount |-> in.amount,
     Source |-> "api",
     Symbol |-> StringToLower(in.pair),
     AccountID |-> ParseIntOrZero(in.clientID),
     Price |-> IF in.orderType = "Limit" THEN in.price ELSE 0,
     Type |-> FormattedType(in.side, in.orderType)]

\* h.SpotNewOrder: the venue's order number, or an error and no number.
SpotNewOrder(in) == in.answer

OrderIDOfAnyResponse(response) == FormatIntSeq(response)

\* if response > 0 { OrderID = fmt.Sprintf("%v", response) }
OrderIDOf(response) ==
    IF response > 0 THEN FormatIntSeq(response) ELSE Str0

HHSubmitOrder(in) ==
    IF FormattedType(in.side, in.orderType) = None
    THEN [done |-> TRUE, IsOrderPlaced |-> FALSE, OrderID |-> Str0,
          err |-> "Unsupported order type", log |-> <<>>, sent |-> <<>>]
    ELSE [done |-> TRUE,
          IsOrderPlaced |-> SpotNewOrder(in).err = Nil,
          OrderID |-> OrderIDOf(SpotNewOrder(in).response),
          err |-> SpotNewOrder(in).err,
          log |-> <<"SpotNewOrder">>,
          sent |-> <<SpotNewOrderParams(in)>>]

\* The arguments of a call and the venue's answer to SpotNewOrder.
HHSubmitInput(p, s, t, a, pr, cl, ans) ==
    [driver |-> "HuobiHadax", pair |-> p, side |-> s, orderType |-> t,
     amount |-> a, price |-> pr, clientID |-> cl, answer |-> ans]

SpotNewOrderAnswers ==
    {[response |-> 0, err |-> e] : e \in CallErrors}
    \cup {[response |-> n, err |-> Nil] : n \in 0..NumOrderIDs}

HHSubmitInit ==
    /\ \E p \in HHOrderPairs, s \in HHOrderSides, t \in HHOrderTypes,
          a \in HHOrderAmounts, pr \in HHOrderPrices, cl \in ClientIDs,
          ans \in SpotNewOrderAnswers :
            submitIn = HHSubmitInput(p, s, t, a, pr, cl, ans)
    /\ submitResp = NoResp

HHSubmit ==
    /\ submitResp = NoResp
    /\ submitIn.driver = "HuobiHadax"
    /\ submitResp' = HHSubmitOrder(submitIn)
    /\ UNCHANGED submitIn
    /\ SubmitFrame

HHSubmitted ==
    /\ submitResp # NoResp
    /\ submitIn.driver = "HuobiHadax"

SubmitInit == LBSubmitInit \/ HHSubmitInit

(***************************************************************************)
(* CancelAllOrders of the two drivers.                                     *)
(***************************************************************************)
NumOpenAds == 3
NumEnabledPairs == 2

OpenAdIDs == AdIDBase..(AdIDBase + NumOpenAds - 1)
PairNames == <<"BTC-USDT", "ETH-USDT", "HT-ETH", "LTC-BTC">>
HHPairs == {PairNames[i] : i \in 1..Min2(NumEnabledPairs, Len(PairNames))}

SeqsNoRepeat(S) ==
    {q \in SeqsUpTo(S, Cardinality(S)) :
        \A i, j \in DOMAIN q : i # j => q[i] # q[j]}

Range(q) == {q[i] : i \in DOMAIN q}

\* l.DeleteAd(id): nil, or the venue's error for this ad.
DeleteAd(in, id) == in.deleteErr[id]

RECURSIVE LBCancelLoopStoppingAtFailure(_, _, _)
LBCancelLoopStoppingAtFailure(in, ads, resp) ==
    IF ads = <<>> THEN resp
    ELSE LET adIDString == FormatIntSeq(Head(ads))
             err == DeleteAd(in, Head(ads))
             logged == Append(resp.log, <<"DeleteAd", adIDString>>)
         IN IF err # Nil
            THEN [resp EXCEPT !.log = logged,
                    !.OrderStatus = (adIDString :> err) @@ @]
            ELSE LBCancelLoopStoppingAtFailure(in, Tail(ads),
                    [resp EXCEPT !.log = logged])

\* The loop of LocalBitcoins CancelAllOrders over ads.AdList.
RECURSIVE LBCancelLoop(_, _, _)
LBCancelLoop(in, ads, resp) ==
    IF ads = <<>> THEN resp
    ELSE LET adIDString == FormatIntSeq(Head(ads))
             err == DeleteAd(in, Head(ads))
             logged == Append(resp.log, <<"DeleteAd", adIDString>>)
         IN LBCancelLoop(in, Tail(ads),
                IF err # Nil
                THEN [resp EXCEPT !.log = logged,
                        !.OrderStatus = (adIDString :> err) @@ @]
                ELSE [resp EXCEPT !.log = logged])

LBCancelAllOrders(in) ==
    IF in.adsErr # Nil
    THEN [done |-> TRUE, OrderStatus |-> <<>>, err |-> in.adsErr, log |-> <<<<"Getads", Str0>>>>]
    ELSE LBCancelLoop(in, in.ads,
            [done |-> TRUE, OrderStatus |-> <<>>, err |-> Nil, log |-> <<<<"Getads", Str0>>>>])

\* h.CancelOpenOrdersBatch(accountID, symbol): the venue's answer for a pair.
CancelOpenOrdersBatch(in, symbol) == in.batch[symbol]

\* The loop of HuobiHadax CancelAllOrders over the enabled pairs: it returns
\* from inside the loop on an error and on a failed count above zero.
RECURSIVE HHCancelLoop(_, _, _)
HHCancelLoop(in, pairs, resp) ==
    IF pairs = <<>> THEN resp
    ELSE LET answer == CancelOpenOrdersBatch(in, Head(pairs))
             logged == Append(resp.log, <<"CancelOpenOrdersBatch", Head(pairs)>>)
         IN IF answer.err # Nil
            THEN [resp EXCEPT !.log = logged, !.err = answer.err]
            ELSE IF answer.FailedCount > 0
            THEN [resp EXCEPT !.log = logged, !.err = "orders failed to cancel"]
            ELSE HHCancelLoop(in, Tail(pairs), [resp EXCEPT !.log = logged])

HHCancelAllOrders(in) ==
    HHCancelLoop(in, in.enabledPairs,
                 [done |-> TRUE, OrderStatus |-> <<>>, err |-> Nil, log |-> <<>>])

\* The venue's answers to Getads and to each DeleteAd.
LBCancelInput(e, l, d) ==
    [driver |-> "LocalBitcoins", adsErr |-> e, ads |-> l,
     deleteErr |-> [id \in OpenAdIDs |-> IF id \in Range(l) THEN d[id] ELSE Nil]]

\* The enabled pairs and the venue's answer to each CancelOpenOrdersBatch.
HHCancelInput(l, d) ==
    [driver |-> "HuobiHadax", enabledPairs |-> l,
     batch |-> [p \in HHPairs |-> IF p \in Range(l) THEN d[p]
                                  ELSE [err |-> Nil, FailedCount |-> 0]]]

CancelInit ==
    /\ \/ \E e \in CallErrors : cancelIn = LBCancelInput(e, <<>>, <<>>)
       \/ \E l \in SeqsNoRepeat(OpenAdIDs) :
            \E d \in [Range(l) -> {Nil, "VenueError", "Timeout"}] :
                cancelIn = LBCancelInput(Nil, l, d)
       \/ \E l \in SeqsNoRepeat(HHPairs) :
            \E d \in [Range(l) -> {[err |-> Nil, FailedCount |-> 0],
                                   [err |-> Nil, FailedCount |-> 1],
                                   [err |-> "VenueError", FailedCount |-> 0]}] :
                cancelIn = HHCancelInput(l, d)
    /\ cancelResp = NoResp

LBCancelAll ==
    /\ cancelResp = NoResp
    /\ cancelIn.driver = "LocalBitcoins"
    /\ cancelResp' = LBCancelAllOrders(cancelIn)
    /\ UNCHANGED cancelIn
    /\ CancelFrame

HHCancelAll ==
    /\ cancelResp = NoResp
    /\ cancelIn.driver = "HuobiHadax"
    /\ cancelResp' = HHCancelAllOrders(cancelIn)
    /\ UNCHANGED cancelIn
    /\ CancelFrame

\* The open entities (ads, pair batches) the call enumerates.
CancelEnumerated ==
    IF cancelIn.driver = "LocalBitcoins"
    THEN {FormatIntSeq(id) : id \in Range(cancelIn.ads)}
    ELSE Range(cancelIn.enabledPairs)

\* The entities one cancellation request was sent for.
CancelAttempted ==
    {cancelResp.log[i][2] :
        i \in {k \in DOMAIN cancelResp.log : cancelResp.log[k][1] # "Getads"}}

(***************************************************************************)
(* Market data: FetchTicker / FetchOrderbook read through the ticker and   *)
(* orderbook stores and call UpdateTicker / UpdateOrderbook on a miss.     *)
(* A snapshot carries its age in clock ticks, capped above the threshold.  *)
(***************************************************************************)
StalenessThreshold == 1
NumCallers == 2

Callers == 1..NumCallers
Kinds == {"ticker", "orderbook"}
CachePairs == {"BTCUSD", "BTCAUD"}
CacheKeys == Kinds \X Venues \X CachePairs
MaxAge == StalenessThreshold + 1

\* ticker.GetTicker / orderbook.GetOrderbook: the snapshot of the key, or an
\* error when there is none or it is older than the staleness threshold.
CacheGet(store, key) ==
    IF store[key].present /\ store[key].age <= StalenessThreshold
    THEN [err |-> Nil, age |-> store[key].age]
    ELSE [err |-> "not found", age |-> 0]

\* ticker.ProcessTicker / orderbook.ProcessOrderbook: replace the snapshot.
CachePut(store, keys) ==
    [k \in CacheKeys |->
        IF k \in keys THEN [present |-> TRUE, age |-> 0] ELSE store[k]]

\* FetchTicker / FetchOrderbook: update when the store answers with an error.
NeedsUpdateOnlyWhenMissing(store, key) == ~store[key].present

NeedsUpdate(store, key) == CacheGet(store, key).err # Nil

\* The keys one successful update stores: LocalBitcoins UpdateTicker stores a
\* ticker for every enabled pair, every other update stores the asked key.
UpdateStores(kind, venue, pair, enabled) ==
    IF venue = "LocalBitcoins" /\ kind = "ticker"
    THEN {<<kind, venue, x>> : x \in enabled}
    ELSE {<<kind, venue, pair>>}

FetcherKey(f) == <<f.kind, f.venue, f.pair>>

IdleFetcher(kind, venue, pair) ==
    [pc |-> "idle", kind |-> kind, venue |-> venue, pair |-> pair,
     dispatches |-> 0, sawPresent |-> FALSE, sawAge |-> 0,
     res |-> None, resAge |-> 0]

CacheInit ==
    /\ cache = [k \in CacheKeys |-> [present |-> FALSE, age |-> 0]]
    /\ enabledPairs \in {{"BTCUSD"}, CachePairs}
    /\ \E kd \in Kinds, v \in Venues :
          fetcher \in [Callers -> {IdleFetcher(kd, v, p) : p \in CachePairs}]

\* FetchTicker / FetchOrderbook up to the point where it either returns the
\* cached snapshot or has sent the update's request to the venue.
FetchCall(c) ==
    LET f == fetcher[c]
        key == FetcherKey(f)
        seen == [f EXCEPT !.sawPresent = cache[key].present,
                          !.sawAge = cache[key].age]
    IN /\ f.pc = "idle"
       /\ IF NeedsUpdate(cache, key)
          THEN fetcher' = [fetcher EXCEPT ![c] =
                  [seen EXCEPT !.pc = "dispatching", !.dispatches = @ + 1]]
          ELSE fetcher' = [fetcher EXCEPT ![c] =
                  [seen EXCEPT !.pc = "done", !.res = "snapshot",
                               !.resAge = cache[key].age]]
       /\ UNCHANGED <<cache, enabledPairs>>
       /\ CacheFrame

\* The venue answers the update's request: UpdateTicker / UpdateOrderbook
\* returns the error, or stores the snapshot(s) and returns what the store
\* then holds for the key.
UpdateReturn(c, err) ==
    LET f == fetcher[c]
        key == FetcherKey(f)
        stored == CachePut(cache, UpdateStores(f.kind, f.venue, f.pair,
                                               enabledPairs))
        got == CacheGet(stored, key)
    IN /\ f.pc = "dispatching"
       /\ IF err # Nil
          THEN /\ fetcher' = [fetcher EXCEPT ![c] =
                      [f EXCEPT !.pc = "done", !.res = err]]
               /\ UNCHANGED cache
          ELSE /\ cache' = stored
               /\ fetcher' = [fetcher EXCEPT ![c] =
                      [f EXCEPT !.pc = "done",
                                !.res = IF got.err = Nil THEN "snapshot"
                                        ELSE got.err,
                                !.resAge = got.age]]
       /\ UNCHANGED enabledPairs
       /\ CacheFrame

\* The caller takes the result and is ready for its next call.
FetchDone(c) ==
    /\ fetcher[c].pc = "done"
    /\ fetcher' = [fetcher EXCEPT ![c] =
            IdleFetcher(fetcher[c].kind, fetcher[c].venue, fetcher[c].pair)]
    /\ UNCHANGED <<cache, enabledPairs>>
    /\ CacheFrame

\* Time passes: every snapshot grows one tick older.
CacheTick ==
    /\ \E k \in CacheKeys : cache[k].present /\ cache[k].age < MaxAge
    /\ cache' = [k \in CacheKeys |->
                    IF cache[k].present
                    THEN [cache[k] EXCEPT !.age = Min2(@ + 1, MaxAge)]
                    ELSE cache[k]]
    /\ UNCHANGED <<enabledPairs, fetcher>>
    /\ CacheFrame

(***************************************************************************)
(* Request dispatcher and rate limiter of one venue driver's Requester,    *)
(* as SetDefaults builds it: an authenticated and an unauthenticated       *)
(* channel, each with an interval and a number of calls per interval.      *)
(* The clock ticks every SecondsPerTick seconds.                           *)
(***************************************************************************)
localbitcoinsRateInterval == 0
huobihadaxRateInterval == 10
AuthRate == 1
UnauthRate == 2
SecondsPerTick == 10
NumRequesters == 2

Channels == {"auth", "unauth"}
Requesters == 1..NumRequesters
Outcomes == {"Success", "TransportError", "VenueError", "Timeout"}

\* request.NewRateLimit(interval, rate)
NewRateLimit(interval, rate) == [interval |-> interval, rate |-> rate]

RateInterval(venue) ==
    IF venue = "LocalBitcoins" THEN localbitcoinsRateInterval
    ELSE huobihadaxRateInterval

\* request.New(name, authLimit, unauthLimit, client) in SetDefaults.
RequesterLimitsSwapped(venue) ==
    [auth |-> NewRateLimit(RateInterval(venue), UnauthRate),
     unauth |-> NewRateLimit(RateInterval(venue), AuthRate)]

RequesterLimits(venue) ==
    [auth |-> NewRateLimit(RateInterval(venue), AuthRate),
     unauth |-> NewRateLimit(RateInterval(venue), UnauthRate)]

\* The interval of a limit in clock ticks, rounded up.
IntervalTicks(limit) == (limit.interval + SecondsPerTick - 1) \div SecondsPerTick

\* acquire(channel) may return: the window has run out, or has budget left.
CanAcquireNoNewWindow(win, limit) == win.requests < limit.rate

CanAcquire(win, limit) ==
    \/ win.elapsed >= IntervalTicks(limit)
    \/ win.requests < limit.rate

\* The window after acquire(channel) returned: a window that has run out is
\* replaced by a new one, and the call is counted in the window.
AfterAcquire(win, limit) ==
    IF win.elapsed >= IntervalTicks(limit)
    THEN [elapsed |-> 0, requests |-> 1, admitted |-> 1]
    ELSE [win EXCEPT !.requests = @ + 1, !.admitted = @ + 1]

\* execute after the transport call: the outcome is classified and returned.
AfterTransportRetryingTimeout(r, outcome) ==
    IF outcome = "Timeout"
    THEN [r EXCEPT !.pc = "waiting", !.transports = @ + 1]
    ELSE [r EXCEPT !.pc = "done", !.transports = @ + 1, !.outcome = outcome]

AfterTransport(r, outcome) ==
    [r EXCEPT !.pc = "done", !.transports = @ + 1, !.outcome = outcome]

IdleRequester ==
    [pc |-> "idle", channel |-> "auth", tokens |-> 0, transports |-> 0,
     outcome |-> None]

LimiterInit ==
    /\ limiter \in {[venue |-> v,
                     auth |-> [elapsed |-> 0, requests |-> 0, admitted |-> 0],
                     unauth |-> [elapsed |-> 0, requests |-> 0, admitted |-> 0]] :
                    v \in Venues}
    /\ requester = [c \in Requesters |-> IdleRequester]

\* A caller enters execute(venue, channel, requestSpec).
Execute(c, ch) ==
    /\ requester[c].pc = "idle"
    /\ requester' = [requester EXCEPT ![c] =
            [IdleRequester EXCEPT !.pc = "waiting", !.channel = ch]]
    /\ UNCHANGED limiter
    /\ LimiterFrame

\* The rate limiter admits the caller and takes one token of the channel.
Acquire(c) ==
    LET ch == requester[c].channel
        limit == RequesterLimits(limiter.venue)[ch]
    IN /\ requester[c].pc = "waiting"
       /\ CanAcquire(limiter[ch], limit)
       /\ limiter' = [limiter EXCEPT ![ch] = AfterAcquire(@, limit)]
       /\ requester' = [requester EXCEPT ![c] =
               [@ EXCEPT !.pc = "acquired", !.tokens = @ + 1]]
       /\ LimiterFrame

\* The transport call is made and ends in one of the four outcomes.
Transport(c, outcome) ==
    /\ requester[c].pc = "acquired"
    /\ requester' = [requester EXCEPT ![c] = AfterTransport(@, outcome)]
    /\ UNCHANGED limiter
    /\ LimiterFrame

\* execute returns the outcome to the venue driver.
ExecuteReturn(c) ==
    /\ requester[c].pc = "done"
    /\ requester' = [requester EXCEPT ![c] = IdleRequester]
    /\ UNCHANGED limiter
    /\ LimiterFrame

\* Time passes in the windows that have not run out.
LimiterTick ==
    LET limits == RequesterLimits(limiter.venue)
        Older(ch) == [limiter[ch] EXCEPT
                        !.elapsed = Min2(@ + 1, IntervalTicks(limits[ch]))]
    IN /\ \E ch \in Channels : limiter[ch].elapsed < IntervalTicks(limits[ch])
       /\ limiter' = [limiter EXCEPT !.auth = Older("auth"),
                                     !.unauth = Older("unauth")]
       /\ UNCHANGED requester
       /\ LimiterFrame

(***************************************************************************)
(* Pair lists and the operations the drivers do not implement.  The       *)
(* component follows one driver through a sequence of calls.               *)
(***************************************************************************)
LBCurrencies == {"USD", "AUD"}
HHSymbols == {[BaseCurrency |-> "btc", QuoteCurrency |-> "usdt"],
              [BaseCurrency |-> "eth", QuoteCurrency |-> "btc"]}

\* The request a driver sends for its pair list.
PairListRequest(venue) ==
    IF venue = "LocalBitcoins" THEN "GetTradableCurrencies" ELSE "GetSymbols"

\* What the venue may answer to it: an error, or a list of listed items.
PairListAnswers(venue) ==
    {[list |-> <<>>, err |-> e] : e \in CallErrors}
    \cup {[list |-> l, err |-> Nil] :
            l \in SeqsNoRepeat(IF venue = "LocalBitcoins" THEN LBCurrencies
                               ELSE HHSymbols)}

\* The pair name a driver builds from one listed item.
PairName(venue, item) ==
    IF venue = "LocalBitcoins" THEN "BTC" \o item
    ELSE item.BaseCurrency \o "-" \o item.QuoteCurrency

\* FetchTradablePairs; the nil slice and the empty list are both <<>>.
FetchTradablePairs(venue, answer) ==
    IF answer.err # Nil
    THEN [pairs |-> <<>>, err |-> answer.err]
    ELSE [pairs |-> [x \in DOMAIN answer.list |-> PairName(venue, answer.list[x])],
          err |-> Nil]

\* UpdatePairs(pairs, Spot, false, forceUpdate): the list becomes the
\* driver's available pairs.
UpdatePairs(stored, pairs) == [AvailablePairs |-> pairs, err |-> Nil]

UpdateTradablePairsStoringOnError(venue, stored, answer) ==
    LET fetched == FetchTradablePairs(venue, answer)
    IN [AvailablePairs |-> UpdatePairs(stored, fetched.pairs).AvailablePairs,
        err |-> fetched.err]

UpdateTradablePairs(venue, stored, answer) ==
    LET fetched == FetchTradablePairs(venue, answer)
    IN IF fetched.err # Nil
       THEN [AvailablePairs |-> stored, err |-> fetched.err]
       ELSE UpdatePairs(stored, fetched.pairs)

\* The operations whose body is a single return of a package-level error.
StubOps == {"GetFundingHistory", "GetExchangeHistory", "ModifyOrder",
            "GetOrderInfo", "GetDepositAddress", "WithdrawCryptocurrencyFunds",
            "WithdrawFiatFunds", "WithdrawFiatFundsToInternationalBank",
            "GetWebsocket"}

\* The error each of them returns, the same in both drivers.
StubError(venue, op) ==
    IF op = "GetFundingHistory" THEN "ErrFunctionNotSupported"
    ELSE "ErrNotYetImplemented"

\* Operation and error of a finished call.
OutcomeOf(resp) ==
    IF resp.done THEN [op |-> resp.op, err |-> resp.err]
    ELSE [op |-> None, err |-> Nil]

DriverInit ==
    /\ \E v \in Venues :
        \E l \in {<<>>, <<PairName(v, CHOOSE i \in (IF v = "LocalBitcoins"
                                                  THEN LBCurrencies
                                                  ELSE HHSymbols) : TRUE)>>} :
            pairStore = [venue |-> v, AvailablePairs |-> l]
    /\ driverResp = NoResp
    /\ prevOutcome = OutcomeOf(NoResp)

\* A caller asks the driver for the venue's pair list.
FetchPairsCall ==
    \E answer \in PairListAnswers(pairStore.venue) :
        LET r == FetchTradablePairs(pairStore.venue, answer)
        IN /\ driverResp' = [done |-> TRUE, op |-> "FetchTradablePairs",
                             answer |-> answer, pairs |-> r.pairs,
                             err |-> r.err,
                             log |-> <<PairListRequest(pairStore.venue)>>,
                             before |-> pairStore]
           /\ prevOutcome' = OutcomeOf(driverResp)
           /\ UNCHANGED pairStore
           /\ DriverFrame

\* The periodic refresh of the driver's stored pair list.
UpdatePairsCall ==
    \E answer \in PairListAnswers(pairStore.venue) :
        LET r == UpdateTradablePairs(pairStore.venue, pairStore.AvailablePairs,
                                     answer)
        IN /\ pairStore' = [pairStore EXCEPT !.AvailablePairs = r.AvailablePairs]
           /\ driverResp' = [done |-> TRUE, op |-> "UpdateTradablePairs",
                             answer |-> answer, pairs |-> <<>>,
                             err |-> r.err,
                             log |-> <<PairListRequest(pairStore.venue)>>,
                             before |-> pairStore]
           /\ prevOutcome' = OutcomeOf(driverResp)
           /\ DriverFrame

\* A caller invokes one of the operations without an implementation.
StubCall(op) ==
    /\ driverResp' = [done |-> TRUE, op |-> op,
                      answer |-> [list |-> <<>>, err |-> Nil], pairs |-> <<>>,
                      err |-> StubError(pairStore.venue, op), log |-> <<>>,
                      before |-> pairStore]
    /\ prevOutcome' = OutcomeOf(driverResp)
    /\ UNCHANGED pairStore
    /\ DriverFrame

(***************************************************************************)
(* UpdateOrderbook of the two drivers and the orderbook package store.     *)
(* Prices and amounts are whole units; the quotient LocalBitcoins computes *)
(* is kept exact as a fraction.                                            *)
(***************************************************************************)
MaxLevels == 2
MaxBookPrice == 2

BookPrices == 1..MaxBookPrice
BookAmounts == {2}

\* One level of the venue's response: LocalBitcoins answers {Price, Amount},
\* HuobiHadax answers the array [price, amount].
VenueLevels(venue) ==
    IF venue = "LocalBitcoins"
    THEN [Price : BookPrices, Amount : BookAmounts]
    ELSE {<<p, a>> : p \in BookPrices, a \in BookAmounts}

\* orderbook.Item built from one level of the response.
BookItem(venue, data) ==
    IF venue = "LocalBitcoins"
    THEN [Amount |-> [num |-> data.Amount, den |-> data.Price],
          Price |-> data.Price]
    ELSE [Amount |-> [num |-> data[2], den |-> 1], Price |-> data[1]]

EmptyBook == [Bids |-> <<>>, Asks |-> <<>>]

\* The loops over orderbookNew.Bids and orderbookNew.Asks.
BuildBook(venue, answer) ==
    [Bids |-> [x \in DOMAIN answer.Bids |-> BookItem(venue, answer.Bids[x])],
     Asks |-> [x \in DOMAIN answer.Asks |-> BookItem(venue, answer.Asks[x])]]

\* orderbook.ProcessOrderbook: the snapshot replaces the stored one.
ProcessOrderbook(store, orderBook) ==
    [present |-> TRUE, book |-> orderBook]

\* orderbook.GetOrderbook: the stored snapshot, or an error when none is.
GetOrderbook(store) ==
    IF store.present THEN [orderBook |-> store.book, err |-> Nil]
    ELSE [orderBook |-> EmptyBook, err |-> "Orderbook not found"]

UpdateOrderbook(in, store) ==
    IF in.answer.err # Nil
    THEN [store |-> store, orderBook |-> EmptyBook, err |-> in.answer.err]
    ELSE LET stored == ProcessOrderbook(store, BuildBook(in.venue, in.answer))
         IN [store |-> stored,
             orderBook |-> GetOrderbook(stored).orderBook,
             err |-> GetOrderbook(stored).err]

BookInit ==
    /\ \E v \in Venues :
        \/ \E e \in CallErrors :
             bookIn = [venue |-> v,
                       answer |-> [Bids |-> <<>>, Asks |-> <<>>, err |-> e]]
        \/ \E kb, ka \in 0..MaxLevels :
             \E b \in [1..kb -> VenueLevels(v)], a \in [1..ka -> VenueLevels(v)] :
                bookIn = [venue |-> v,
                          answer |-> [Bids |-> b, Asks |-> a, err |-> Nil]]
    /\ bookStore = [present |-> FALSE, book |-> EmptyBook]
    /\ bookResp = NoResp

\* A caller refreshes the order book of the pair.
UpdateOrderbookCall ==
    /\ bookResp = NoResp
    /\ LET r == UpdateOrderbook(bookIn, bookStore)
       IN /\ bookStore' = r.store
          /\ bookResp' = [done |-> TRUE, orderBook |-> r.orderBook,
                          err |-> r.err]
    /\ UNCHANGED bookIn
    /\ BookFrame

(***************************************************************************)
(* HuobiHadax GetAccountID: callers on several driver instances, the       *)
(* package-level mutex mtx, and each instance's AccountID field.           *)
(***************************************************************************)
NumAccountCallers == 2
ConfiguredAccountID == 7

AccountCallers == 1..NumAccountCallers
Instances == {"h1", "h2"}
VenueAccountIDs == {1, 2}
Free == 0

\* What the venue may answer to h.GetAccounts(): an error, or the accounts.
AccountsAnswers ==
    {[acc |-> <<>>, err |-> "VenueError"]}
    \cup {[acc |-> l, err |-> Nil] : l \in SeqsNoRepeat(VenueAccountIDs)}

\* The return values of GetAccountID once GetAccounts has answered.
AccountsResult(answer) ==
    IF answer.err # Nil THEN [id |-> Str0, err |-> answer.err]
    ELSE IF Len(answer.acc) > 0
    THEN [id |-> FormatIntSeq(answer.acc[1]), err |-> Nil]
    ELSE [id |-> Str0, err |-> "no account ID fetched"]

DeferredUnlockOnSuccessOnly(holder, err) ==
    IF err # Nil THEN holder ELSE Free

\* defer mtx.Unlock(): runs on every return of GetAccountID.
DeferredUnlock(holder, err) == Free

IdleAccountCall(h) ==
    [pc |-> "idle", h |-> h, late |-> FALSE, id |-> Str0, err |-> Nil]

AccountInit ==
    /\ mtx = Free
    /\ accountID \in [Instances -> {Str0, FormatIntSeq(ConfiguredAccountID)}]
    /\ \E hs \in [AccountCallers -> Instances] :
        accountCall = [c \in AccountCallers |-> IdleAccountCall(hs[c])]
    /\ resolved = [h \in Instances |-> None]

\* Caller c enters GetAccountID on its driver instance; id and err are what
\* its previous call returned until this call returns.
GetAccountIDCall(c) ==
    /\ accountCall[c].pc = "idle"
    /\ accountCall' = [accountCall EXCEPT ![c] =
            [@ EXCEPT !.pc = "locking",
                      !.late = resolved[accountCall[c].h] # None]]
    /\ UNCHANGED <<mtx, accountID, resolved>>
    /\ AccountFrame

\* mtx.Lock() returns; the AccountID field decides what follows.
Lock(c) ==
    /\ accountCall[c].pc = "locking"
    /\ mtx = Free
    /\ mtx' = c
    /\ accountCall' = [accountCall EXCEPT ![c] =
            IF accountID[accountCall[c].h] = Str0
            THEN [@ EXCEPT !.pc = "accounts"]
            ELSE [@ EXCEPT !.pc = "unlocking",
                           !.id = accountID[accountCall[c].h], !.err = Nil]]
    /\ UNCHANGED <<accountID, resolved>>
    /\ AccountFrame

\* h.GetAccounts() returns with the venue's answer.
GetAccountsReturn(c, answer) ==
    /\ accountCall[c].pc = "accounts"
    /\ accountCall' = [accountCall EXCEPT ![c] =
            [@ EXCEPT !.pc = "unlocking", !.id = AccountsResult(answer).id,
                      !.err = AccountsResult(answer).err]]
    /\ UNCHANGED <<mtx, accountID, resolved>>
    /\ AccountFrame

\* GetAccountID returns to its caller; the deferred unlock runs.
GetAccountIDReturn(c) ==
    /\ accountCall[c].pc = "unlocking"
    /\ mtx' = DeferredUnlock(mtx, accountCall[c].err)
    /\ accountCall' = [accountCall EXCEPT ![c] = [@ EXCEPT !.pc = "idle"]]
    /\ resolved' = [resolved EXCEPT ![accountCall[c].h] =
            IF @ = None /\ accountCall[c].err = Nil
            THEN accountCall[c].id ELSE @]
    /\ UNCHANGED accountID
    /\ AccountFrame

(***************************************************************************)
(* Specifications, one per component.                                      *)
(***************************************************************************)
Init == /\ FeeInit /\ SubmitInit /\ CancelInit /\ CacheInit /\ LimiterInit
        /\ DriverInit /\ BookInit /\ AccountInit

IdleFee == feeBuilder = [FeeType |-> "CryptocurrencyTradeFee",
                          FirstCurrency |-> "LTC", Amount |-> 1,
                          PurchasePrice |-> 1, IsMaker |-> FALSE]
           /\ feeResp = NoResp
IdleSubmit == submitIn = [driver |-> None] /\ submitResp = NoResp
IdleCancel == cancelIn = [driver |-> None] /\ cancelResp = NoResp
IdleCache == /\ cache = [k \in CacheKeys |-> [present |-> FALSE, age |-> 0]]
             /\ enabledPairs = CachePairs
             /\ fetcher = [c \in Callers |->
                              IdleFetcher("ticker", "LocalBitcoins", "BTCUSD")]
IdleLimiter == /\ limiter = [venue |-> "LocalBitcoins",
                     auth |-> [elapsed |-> 0, requests |-> 0, admitted |-> 0],
                     unauth |-> [elapsed |-> 0, requests |-> 0, admitted |-> 0]]
               /\ requester = [c \in Requesters |-> IdleRequester]
IdleDriver == /\ pairStore = [venue |-> "LocalBitcoins", AvailablePairs |-> <<>>]
              /\ driverResp = NoResp
              /\ prevOutcome = OutcomeOf(NoResp)
IdleBook == /\ bookIn = [venue |-> None]
            /\ bookStore = [present |-> FALSE, book |-> EmptyBook]
            /\ bookResp = NoResp
IdleAccount == /\ mtx = Free
               /\ accountID = [h \in Instances |-> Str0]
               /\ accountCall = [c \in AccountCallers |-> IdleAccountCall("h1")]
               /\ resolved = [h \in Instances |-> None]

InitFee == /\ FeeInit /\ IdleSubmit /\ IdleCancel /\ IdleCache /\ IdleLimiter
           /\ IdleDriver /\ IdleBook /\ IdleAccount
NextFee == FeeCall
SpecFee == InitFee /\ [][NextFee]_vars

InitSubmit == /\ IdleFee /\ SubmitInit /\ IdleCancel /\ IdleCache /\ IdleLimiter
              /\ IdleDriver /\ IdleBook /\ IdleAccount
NextSubmit == LBSubmit \/ HHSubmit
SpecSubmit == InitSubmit /\ [][NextSubmit]_vars

InitCancel == /\ IdleFee /\ IdleSubmit /\ CancelInit /\ IdleCache /\ IdleLimiter
              /\ IdleDriver /\ IdleBook /\ IdleAccount
NextCancel == LBCancelAll \/ HHCancelAll
SpecCancel == InitCancel /\ [][NextCancel]_vars

InitCache == /\ IdleFee /\ IdleSubmit /\ IdleCancel /\ CacheInit /\ IdleLimiter
             /\ IdleDriver /\ IdleBook /\ IdleAccount
NextCache ==
    \/ \E c \in Callers : FetchCall(c)
    \/ \E c \in Callers : \E err \in {Nil} \cup CallErrors : UpdateReturn(c, err)
    \/ \E c \in Callers : FetchDone(c)
    \/ CacheTick
SpecCache == InitCache /\ [][NextCache]_vars

InitLimiter == /\ IdleFee /\ IdleSubmit /\ IdleCancel /\ IdleCache /\ LimiterInit
               /\ IdleDriver /\ IdleBook /\ IdleAccount
NextLimiter ==
    \/ \E c \in Requesters : \E ch \in Channels : Execute(c, ch)
    \/ \E c \in Requesters : Acquire(c)
    \/ \E c \in Requesters : \E o \in Outcomes : Transport(c, o)
    \/ \E c \in Requesters : ExecuteReturn(c)
    \/ LimiterTick
SpecLimiter == InitLimiter /\ [][NextLimiter]_vars

\* Fair scheduling: time passes, every step of execute that stays possible is
\* taken, and a waiter that can be admitted again and again is admitted.
FairSpecLimiter ==
    /\ SpecLimiter
    /\ WF_vars(LimiterTick)
    /\ \A c \in Requesters :
        /\ SF_vars(Acquire(c))
        /\ WF_vars(\E o \in Outcomes : Transport(c, o))

InitDriver == /\ IdleFee /\ IdleSubmit /\ IdleCancel /\ IdleCache /\ IdleLimiter
              /\ DriverInit /\ IdleBook /\ IdleAccount
NextDriver ==
    \/ FetchPairsCall
    \/ UpdatePairsCall
    \/ \E op \in StubOps : StubCall(op)
SpecDriver == InitDriver /\ [][NextDriver]_vars

InitBook == /\ IdleFee /\ IdleSubmit /\ IdleCancel /\ IdleCache /\ IdleLimiter
            /\ IdleDriver /\ BookInit /\ IdleAccount
NextBook == UpdateOrderbookCall
SpecBook == InitBook /\ [][NextBook]_vars

InitAccount == /\ IdleFee /\ IdleSubmit /\ IdleCancel /\ IdleCache /\ IdleLimiter
               /\ IdleDriver /\ IdleBook /\ AccountInit
NextAccount ==
    \/ \E c \in AccountCallers : GetAccountIDCall(c)
    \/ \E c \in AccountCallers : Lock(c)
    \/ \E c \in AccountCallers : \E a \in AccountsAnswers : GetAccountsReturn(c, a)
    \/ \E c \in AccountCallers : GetAccountIDReturn(c)
SpecAccount == InitAccount /\ [][NextAccount]_vars

Next == NextFee \/ NextSubmit \/ NextCancel \/ NextCache \/ NextLimiter
        \/ NextDriver \/ NextBook \/ NextAccount
Spec == Init /\ [][Next]_vars

(***************************************************************************)
(* Properties.                                                             *)
(***************************************************************************)

\* The number a decimal string denotes (digits only).
DecimalValue(str) ==
    LET RECURSIVE Val(_, _)
        Val(s, acc) ==
            IF s = <<>> THEN acc
            ELSE Val(Tail(s),
                     10 * acc + (CHOOSE d \in 0..9 : Digit(d) = Head(s)))
    IN Val(str, 0)

\* The budget of a channel: max calls per window.
ChannelBudget(ch) == IF ch = "auth" THEN AuthRate ELSE UnauthRate

\* C1: for every cache key, callers that fetch the key concurrently while
\* no fresh snapshot is cached make one dispatch between them: at no time
\* do two callers have an update request for the same key in flight.
C1_SingleFlight ==
    \A c1, c2 \in Callers :
        (c1 # c2 /\ FetcherKey(fetcher[c1]) = FetcherKey(fetcher[c2]))
            => ~(fetcher[c1].pc = "dispatching" /\ fetcher[c2].pc = "dispatching")

\* What "equal to the submitted parameters on every compared field" means:
\* the value the parameters give for each field SubmitOrder compares.
ComparedFields == AdFields \ {"RequireIdentification"}

ParamValue(params, f) ==
    CASE f = "Lat" -> params.Latitude
      [] f = "Lon" -> params.Longitude
      [] f = "MinAmount" -> FormatIntSeq(params.MinAmount)
      [] OTHER -> params[f]

EqualAds ==
    LET params == AdCreateParams(submitIn.secondCurrency, submitIn.side,
                                 submitIn.amount)
    IN {i \in DOMAIN submitIn.ads :
          \A f \in ComparedFields : submitIn.ads[i][f] = ParamValue(params, f)}

\* C2: LocalBitcoins SubmitOrder, placement succeeded: when zero ads or two
\* or more ads of the listing equal the submitted parameters, the call fails
\* and returns no order identifier.
C2_AmbiguousPlacementFails ==
    (LBSubmitted /\ Cardinality(EqualAds) # 1)
        => (submitResp.err # Nil /\ submitResp.OrderID = Str0)

\* C3: LocalBitcoins SubmitOrder, placement succeeded: when exactly one ad
\* of the listing equals the submitted parameters, the call returns no
\* error, the placed flag set, and that ad's identifier in decimal.
C3_UniqueMatchResolved ==
    (LBSubmitted /\ Cardinality(EqualAds) = 1)
        => /\ submitResp.err = Nil
           /\ submitResp.IsOrderPlaced
           /\ submitResp.OrderID # Str0
           /\ \A i \in EqualAds :
                DecimalValue(submitResp.OrderID) = submitIn.ads[i].AdID

\* C3 witness: a listing of two ads, the first the only equal one, resolved.
C3_Witness ==
    /\ LBSubmitted
    /\ Len(submitIn.ads) = 2
    /\ EqualAds = {1}
    /\ submitIn.ads[2].Currency # submitIn.ads[1].Currency
    /\ DecimalValue(submitResp.OrderID) = submitIn.ads[1].AdID

\* C4: CancelAllOrders of both drivers: every entity enumerated at call time
\* is sent a cancellation, whatever the outcome of the others, and the call
\* returns no error because a cancellation failed.
C4_CancelAllPartialFailure ==
    (cancelResp.done /\ (cancelIn.driver = "LocalBitcoins" => cancelIn.adsErr = Nil))
        => (CancelAttempted = CancelEnumerated /\ cancelResp.err = Nil)

C6_RateBudget ==
    /\ [](\A ch \in Channels : limiter[ch].admitted <= ChannelBudget(ch))
    /\ [][\A c \in Requesters :
            requester[c].pc = "waiting" =>
                /\ requester'[c].pc \in {"waiting", "acquired"}
                /\ (/\ requester'[c].pc = "acquired"
                    /\ limiter[requester[c].channel].admitted
                          >= ChannelBudget(requester[c].channel))
                     => limiter'[requester[c].channel].admitted = 1]_vars

\* C6 witness: a caller is held back because the window's budget is spent.
C6_Witness ==
    \E c \in Requesters :
        LET ch == requester[c].channel IN
        /\ requester[c].pc = "waiting"
        /\ limiter[ch].admitted = ChannelBudget(ch)
        /\ ~CanAcquire(limiter[ch], RequesterLimits(limiter.venue)[ch])

C8_ExactAccounting ==
    \A c \in Requesters :
        LET r == requester[c] IN
        /\ r.pc \in {"idle", "waiting"} => (r.tokens = 0 /\ r.transports = 0)
        /\ r.pc = "acquired" => (r.tokens = 1 /\ r.transports = 0)
        /\ r.pc = "done" =>
              (r.tokens = 1 /\ r.transports = 1 /\ r.outcome \in Outcomes)

\* C8 witness: a call that timed out has spent its token on one transport call.
C8_Witness ==
    \E c \in Requesters :
        /\ requester[c].pc = "done"
        /\ requester[c].outcome = "Timeout"
        /\ requester[c].tokens = 1

\* C9: GetFee for the trade fee returns 0 and no error when the price is
\* zero or negative, for every amount and maker flag.
C9_NonPositivePriceFeeZero ==
    (/\ feeResp.done
     /\ feeBuilder.FeeType = "CryptocurrencyTradeFee"
     /\ feeBuilder.PurchasePrice <= 0)
        => (feeResp.fee = 0 /\ feeResp.err = Nil)

\* C9 witness: the trade fee of a negative amount at a negative price.
C9_Witness ==
    /\ feeResp.done
    /\ feeBuilder.FeeType = "CryptocurrencyTradeFee"
    /\ feeBuilder.PurchasePrice < 0
    /\ feeBuilder.Amount < 0
    /\ feeResp.fee = 0

\* C10: GetFee returns no error and a fee of at least 0 for every category
\* and input; the trade fee of a maker is at most that of a taker for the
\* same amount and price, and amount 1 at price 1 costs a taker 0.0015 and
\* a maker 0.001.
C10_FeeNonNegativeMakerLeTaker ==
    feeResp.done =>
        /\ feeResp.err = Nil
        /\ feeResp.fee >= 0
        /\ feeBuilder.FeeType = "CryptocurrencyTradeFee" =>
             /\ GetFee([feeBuilder EXCEPT !.IsMaker = TRUE]).fee
                    <= GetFee([feeBuilder EXCEPT !.IsMaker = FALSE]).fee
             /\ (feeBuilder.Amount = 1 /\ feeBuilder.PurchasePrice = 1) =>
                    feeResp.fee = (IF feeBuilder.IsMaker THEN 10 ELSE 15)

\* C10 witness: a trade fee that would be negative, and a maker fee below
\* the taker fee.
C10_Witness ==
    /\ feeResp.done
    /\ feeBuilder.FeeType = "CryptocurrencyTradeFee"
    /\ feeBuilder.Amount < 0
    /\ feeBuilder.PurchasePrice > 0
    /\ feeResp.fee = 0
    /\ GetFee([feeBuilder EXCEPT !.Amount = 1, !.IsMaker = TRUE]).fee
          < GetFee([feeBuilder EXCEPT !.Amount = 1, !.IsMaker = FALSE]).fee
\* The operations the claim names: deposit address lookup, fiat withdrawal,
\* websocket access.
NotSupportedOps == {"GetDepositAddress", "WithdrawFiatFunds",
                    "WithdrawFiatFundsToInternationalBank", "GetWebsocket"}

\* C11: an operation the venue does not support returns an error, sends no
\* request and leaves the driver state as it was; the error is the same for
\* all such operations and differs from the error of every other operation.
C11_NotSupportedDistinct ==
    (driverResp.done /\ driverResp.op \in NotSupportedOps)
        => /\ driverResp.err # Nil
           /\ driverResp.log = <<>>
           /\ driverResp.before = pairStore
           /\ prevOutcome.op \in NotSupportedOps
                => prevOutcome.err = driverResp.err
           /\ (prevOutcome.op \notin NotSupportedOps /\ prevOutcome.err # Nil)
                => prevOutcome.err # driverResp.err

\* C13: when the venue answers the pair-list request with an error,
\* FetchTradablePairs returns that error and no list, and UpdateTradablePairs
\* returns that error and leaves the stored pair list as it was.
C13_PairListErrorSurfaced ==
    (/\ driverResp.done
     /\ driverResp.op \in {"FetchTradablePairs", "UpdateTradablePairs"}
     /\ driverResp.answer.err # Nil)
        => /\ driverResp.err = driverResp.answer.err
           /\ driverResp.pairs = <<>>
           /\ pairStore = driverResp.before

\* C13 witness: a refresh failed while the driver held a pair list, and the
\* driver still holds it.
C13_Witness ==
    /\ driverResp.done
    /\ driverResp.op = "UpdateTradablePairs"
    /\ driverResp.answer.err # Nil
    /\ driverResp.err = driverResp.answer.err
    /\ driverResp.before.AvailablePairs # <<>>
    /\ pairStore.AvailablePairs = driverResp.before.AvailablePairs

\* Prices of a side of a snapshot in the order the snapshot lists them.
NonIncreasing(levels) ==
    \A i, j \in DOMAIN levels : i < j => levels[i].Price >= levels[j].Price

NonDecreasing(levels) ==
    \A i, j \in DOMAIN levels : i < j => levels[i].Price <= levels[j].Price

\* C12: the order-book snapshot UpdateOrderbook stores and returns lists bids
\* in non-increasing price order and asks in non-decreasing price order,
\* whatever the order of the levels in the venue's response.
C12_BookSidesOrdered ==
    (bookResp.done /\ bookResp.err = Nil)
        => /\ NonIncreasing(bookResp.orderBook.Bids)
           /\ NonDecreasing(bookResp.orderBook.Asks)
           /\ NonIncreasing(bookStore.book.Bids)
           /\ NonDecreasing(bookStore.book.Asks)

\* C14: a GetAccountID call never waits for the lock while a call on a
\* different driver instance holds it.
C14_LockScopedToDriver ==
    \A c, d \in AccountCallers :
        (accountCall[c].pc = "locking" /\ mtx = d)
            => accountCall[d].h = accountCall[c].h

\* C15: a GetAccountID call that starts after a call on the same instance
\* has succeeded sends no accounts request and returns the identifier the
\* first successful call returned.
C15_AccountIDCached ==
    \A c \in AccountCallers :
        accountCall[c].late
            => /\ accountCall[c].pc # "accounts"
               /\ accountCall[c].pc \in {"unlocking", "idle"}
                    => /\ accountCall[c].err = Nil
                       /\ accountCall[c].id = resolved[accountCall[c].h]

\* A caller between mtx.Lock() and the deferred mtx.Unlock().
InsideGetAccountID(c) == accountCall[c].pc \in {"accounts", "unlocking"}

\* C20: at most one caller is between acquiring and releasing the lock, so
\* at most one accounts request of GetAccountID is in flight; the lock is
\* held by exactly the caller inside, so every return path has released it;
\* and no step changes an AccountID field.
C20_MutualExclusion ==
    /\ [](\A c, d \in AccountCallers :
            (InsideGetAccountID(c) /\ InsideGetAccountID(d)) => c = d)
    /\ [](\A c \in AccountCallers : InsideGetAccountID(c) <=> mtx = c)
    /\ [][accountID' = accountID]_vars

\* C20 witness: a caller whose previous call failed holds the lock again
\* and waits for the accounts request, while every other caller waits for
\* the lock, and no AccountID field has changed.
C20_Witness ==
    \E c \in AccountCallers :
        /\ accountCall[c].err # Nil
        /\ accountCall[c].pc = "accounts"
        /\ mtx = c
        /\ accountID[accountCall[c].h] = Str0
        /\ \A d \in AccountCallers \ {c} : accountCall[d].pc = "locking"

\* C16: SubmitOrder of either driver: a call that returns an error returns
\* an empty order identifier, and a call that returns an order identifier
\* returns the placed flag set and no error.
C16_OrderResultConsistent ==
    submitResp.done
        => /\ submitResp.err # Nil => submitResp.OrderID = Str0
           /\ submitResp.OrderID # Str0
                => (submitResp.IsOrderPlaced /\ submitResp.err = Nil)

\* C16 witness: HuobiHadax answered an order number, and SubmitOrder returned
\* it in decimal with the placed flag and no error.
C16_Witness ==
    /\ HHSubmitted
    /\ submitIn.answer.response > 0
    /\ submitResp.OrderID # Str0
    /\ DecimalValue(submitResp.OrderID) = submitIn.answer.response
    /\ submitResp.IsOrderPlaced
    /\ submitResp.err = Nil

\* C18: HuobiHadax SubmitOrder sends one order request for each of the four
\* combinations of Buy/Sell with Market/Limit, with the order-type code named
\* after that side and type, and with the price for Limit orders only; for
\* any other combination it returns the 'unsupported' error and sends nothing.
C18_SideTypeMapping ==
    HHSubmitted
        => IF submitIn.side \in {"Buy", "Sell"}
              /\ submitIn.orderType \in {"Market", "Limit"}
           THEN /\ Len(submitResp.sent) = 1
                /\ submitResp.log = <<"SpotNewOrder">>
                /\ submitResp.sent[1].Type =
                      "SpotNewOrderRequestType" \o submitIn.side
                                                \o submitIn.orderType
                /\ submitIn.orderType = "Limit"
                     => submitResp.sent[1].Price = submitIn.price
                /\ submitIn.orderType = "Market"
                     => submitResp.sent[1].Price = 0
           ELSE /\ submitResp.err = "Unsupported order type"
                /\ submitResp.sent = <<>>
                /\ submitResp.log = <<>>
                /\ ~submitResp.IsOrderPlaced
                /\ submitResp.OrderID = Str0

\* C18 witness: a Sell Limit order at a positive price went out with the
\* sell-limit code and that price.
C18_Witness ==
    /\ HHSubmitted
    /\ submitIn.side = "Sell"
    /\ submitIn.orderType = "Limit"
    /\ submitIn.price > 0
    /\ Len(submitResp.sent) = 1
    /\ submitResp.sent[1].Type = "SpotNewOrderRequestTypeSellLimit"
    /\ submitResp.sent[1].Price = submitIn.price

\* C19: LocalBitcoins SubmitOrder: when CreateAd fails the call returns that
\* error, the placed flag unset and no identifier, and CreateAd is its only
\* dispatch; when CreateAd succeeds exactly one Getads dispatch follows it.
C19_ListingAfterPlacement ==
    (submitResp.done /\ submitIn.driver = "LocalBitcoins")
        => IF submitIn.createErr # Nil
           THEN /\ submitResp.err = submitIn.createErr
                /\ ~submitResp.IsOrderPlaced
                /\ submitResp.OrderID = Str0
                /\ submitResp.log = <<"CreateAd">>
           ELSE submitResp.log = <<"CreateAd", "Getads">>

\* C19 witness: CreateAd timed out and the call stopped there.
C19_Witness ==
    /\ submitResp.done
    /\ submitIn.driver = "LocalBitcoins"
    /\ submitIn.createErr = "Timeout"
    /\ submitResp.err = "Timeout"
    /\ submitResp.log = <<"CreateAd">>

\* The listed ads whose deletion the venue refuses.
FailedAds == {id \in Range(cancelIn.ads) : cancelIn.deleteErr[id] # Nil}

\* C17: LocalBitcoins CancelAllOrders, listing succeeded: the keys of
\* OrderStatus are the decimal identifiers of the listed ads whose deletion
\* failed, each mapped to its failure message; the map is empty exactly when
\* no deletion failed; and each listed ad was sent one delete request.
C17_CancelAllStatusMap ==
    (cancelResp.done /\ cancelIn.driver = "LocalBitcoins"
        /\ cancelIn.adsErr = Nil)
        => /\ DOMAIN cancelResp.OrderStatus
                = {FormatIntSeq(id) : id \in FailedAds}
           /\ \A id \in FailedAds :
                cancelResp.OrderStatus[FormatIntSeq(id)] = cancelIn.deleteErr[id]
           /\ (DOMAIN cancelResp.OrderStatus = {}) <=> (FailedAds = {})
           /\ \A id \in Range(cancelIn.ads) :
                Cardinality({i \in DOMAIN cancelResp.log :
                    cancelResp.log[i] = <<"DeleteAd", FormatIntSeq(id)>>}) = 1
           /\ Len(cancelResp.log) = 1 + Len(cancelIn.ads)

\* C17 witness: three ads listed, the first deletion failed and a later one
\* succeeded, and the map holds the failed ad only.
C17_Witness ==
    /\ cancelResp.done
    /\ cancelIn.driver = "LocalBitcoins"
    /\ cancelIn.adsErr = Nil
    /\ Len(cancelIn.ads) = 3
    /\ cancelIn.deleteErr[cancelIn.ads[1]] # Nil
    /\ cancelIn.deleteErr[cancelIn.ads[2]] = Nil
    /\ cancelIn.deleteErr[cancelIn.ads[3]] = Nil
    /\ DOMAIN cancelResp.OrderStatus = {FormatIntSeq(cancelIn.ads[1])}

====
